---- MODULE Spec2Model ----
(***************************************************************************)
(* Model of pdf-navigator-mcp: the PDFNavigator operations                 *)
(* (pdf_navigator_mcp/pdf_navigator.py) and the search_and_open tool       *)
(* (pdf_navigator_mcp/server.py).                                          *)
(*                                                                         *)
(* Text is a sequence of one-character strings.  Positions returned by     *)
(* Find are 0-indexed as in Python; sequences are 1-indexed as in TLA+.    *)
(***************************************************************************)
EXTENDS Integers, Sequences, FiniteSets, TLC

(***************************************************************************)
(* Bounds of the model.                                                    *)
(***************************************************************************)
MaxCap == 2          \* max_search_results is configured in 0..MaxCap or 10
MaxContext == 1      \* search_context_chars is configured in 0..MaxContext or 100
MaxIndex == 3        \* result_index ranges over -1..MaxIndex
MaxPageArg == 4      \* page arguments range over -1..MaxPageArg

(***************************************************************************)
(* Program constants.                                                      *)
(***************************************************************************)
PerPageCap == 3
DefaultContextChars == 100
DefaultMaxResults == 10

Min(S) == CHOOSE x \in S : \A y \in S : x <= y
Max(S) == CHOOSE x \in S : \A y \in S : x >= y

(***************************************************************************)
(* Python string primitives.                                               *)
(***************************************************************************)
WS == {" ", "\n", "\t"}

UpperToLower ==
  ("A" :> "a") @@ ("B" :> "b") @@ ("C" :> "c") @@ ("D" :> "d") @@
  ("E" :> "e") @@ ("F" :> "f") @@ ("G" :> "g") @@ ("H" :> "h") @@
  ("I" :> "i") @@ ("J" :> "j") @@ ("K" :> "k") @@ ("L" :> "l") @@
  ("M" :> "m") @@ ("N" :> "n") @@ ("O" :> "o") @@ ("P" :> "p") @@
  ("Q" :> "q") @@ ("R" :> "r") @@ ("S" :> "s") @@ ("T" :> "t") @@
  ("U" :> "u") @@ ("V" :> "v") @@ ("W" :> "w") @@ ("X" :> "x") @@
  ("Y" :> "y") @@ ("Z" :> "z")

\* str.lower(), one character
LowerChar(c) == IF c \in DOMAIN UpperToLower THEN UpperToLower[c] ELSE c

\* str.lower()
Lower(s) == [i \in 1..Len(s) |-> LowerChar(s[i])]

\* needle occurs in hay at 0-indexed offset p
MatchAt(hay, needle, p) ==
  /\ p >= 0
  /\ p + Len(needle) <= Len(hay)
  /\ \A k \in 1..Len(needle) : hay[p + k] = needle[k]

\* str.find(needle, start) for start >= 0: the lowest offset >= start, or -1
Find(hay, needle, start) ==
  LET last == Len(hay) - Len(needle)
  IN IF \E p \in start..last : MatchAt(hay, needle, p)
     THEN CHOOSE p \in start..last :
            /\ MatchAt(hay, needle, p)
            /\ \A q \in start..(p - 1) : ~MatchAt(hay, needle, q)
     ELSE -1

\* needle in hay
Contains(hay, needle) == \E p \in 0..(Len(hay) - Len(needle)) : MatchAt(hay, needle, p)

\* str.startswith(prefix)
StartsWith(s, prefix) == MatchAt(s, prefix, 0)

\* s[a:b] for 0 <= a, 0 <= b <= len(s)
Slice(s, a, b) == SubSeq(s, a + 1, b)

\* str.strip()
Strip(s) ==
  LET nz == {i \in 1..Len(s) : s[i] \notin WS}
  IN IF nz = {} THEN <<>> ELSE SubSeq(s, Min(nz), Max(nz))

\* ' '.join(s.split()) on a stripped string; prevWs: the previous character was whitespace
\* (a run of whitespace becomes one space: its first character stays, the others go)
JoinSplit(s, prevWs) ==
  LET marked == [i \in 1..Len(s) |->
                   [c |-> IF s[i] \in WS THEN " " ELSE s[i],
                    dup |-> s[i] \in WS /\ (IF i = 1 THEN prevWs ELSE s[i - 1] \in WS)]]
      First(m) == ~m.dup
      kept == SelectSeq(marked, First)
  IN [i \in 1..Len(kept) |-> kept[i].c]

RECURSIVE SplitOn(_, _)
\* str.split(sep) for a non-empty separator
SplitOn(s, sep) ==
  LET p == Find(s, sep, 0)
  IN IF p = -1 THEN <<s>>
     ELSE <<SubSeq(s, 1, p)>> \o SplitOn(SubSeq(s, p + Len(sep) + 1, Len(s)), sep)

RECURSIVE JoinWith(_, _)
\* sep.join(parts)
JoinWith(parts, sep) ==
  IF parts = <<>> THEN <<>>
  ELSE IF Len(parts) = 1 THEN parts[1]
  ELSE parts[1] \o sep \o JoinWith(Tail(parts), sep)

DigitChars == <<"0", "1", "2", "3", "4", "5", "6", "7", "8", "9">>

RECURSIVE NatStr(_)
NatStr(n) ==
  IF n < 10 THEN <<DigitChars[n + 1]>>
  ELSE NatStr(n \div 10) \o <<DigitChars[(n % 10) + 1]>>

\* str(n) / f"{n}" for an integer
IntStr(n) == IF n < 0 THEN <<"-">> \o NatStr(-n) ELSE NatStr(n)

\* a character outside ASCII is written as its code point: ARABIC-INDIC DIGIT THREE is a
\* decimal digit, SUPERSCRIPT TWO is a digit that is not decimal
ArabicIndicThree == "U+0663"
SuperscriptTwo == "U+00B2"

\* the value int() gives a decimal digit
DigitVal(c) == IF c = ArabicIndicThree THEN 3 ELSE CHOOSE d \in 0..9 : DigitChars[d + 1] = c

\* int() takes the character as a decimal digit
IsDigit(c) == c = ArabicIndicThree \/ \E d \in 0..9 : DigitChars[d + 1] = c

\* str.isdigit()
IsDigitStr(s) == s # <<>> /\ \A i \in 1..Len(s) : IsDigit(s[i]) \/ s[i] = SuperscriptTwo

RECURSIVE DigitsVal(_)
DigitsVal(s) ==
  IF s = <<>> THEN 0 ELSE 10 * DigitsVal(SubSeq(s, 1, Len(s) - 1)) + DigitVal(s[Len(s)])

AllDigits(s) == s # <<>> /\ \A i \in 1..Len(s) : IsDigit(s[i])

\* int(s): surrounding whitespace and one sign are accepted; ok = FALSE is ValueError
PyInt(s) ==
  LET t == Strip(s)
      signed == t # <<>> /\ t[1] \in {"-", "+"}
      body == IF signed THEN Tail(t) ELSE t
  IN IF AllDigits(body)
     THEN [ok |-> TRUE, val |-> IF signed /\ t[1] = "-" THEN 0 - DigitsVal(body) ELSE DigitsVal(body)]
     ELSE [ok |-> FALSE, val |-> 0]

\* an argument as the client sends it: a Python int or a Python str
IntArg(n) == [int |-> n, str |-> <<>>, type |-> "int"]
StrArg(s) == [int |-> 0, str |-> s, type |-> "str"]

\* mutant of safe_int: the string is not trimmed before it is checked
safe_intNoStrip(value) ==
  IF value.type = "int" THEN [ok |-> TRUE, val |-> value.int]
  ELSE LET v == value.str
       IN IF v = <<>> THEN [ok |-> FALSE, val |-> 0]
          ELSE IF ~(IsDigitStr(v) \/ (v[1] = "-" /\ IsDigitStr(Tail(v))))
          THEN [ok |-> FALSE, val |-> 0]
          ELSE PyInt(v)

\* server.safe_int; ok = FALSE is ValueError
safe_int(value) ==
  IF value.type = "int" THEN [ok |-> TRUE, val |-> value.int]
  ELSE LET v == Strip(value.str)
       IN IF v = <<>> THEN [ok |-> FALSE, val |-> 0]
          ELSE IF ~(IsDigitStr(v) \/ (v[1] = "-" /\ IsDigitStr(Tail(v))))
          THEN [ok |-> FALSE, val |-> 0]
          ELSE PyInt(v)

(***************************************************************************)
(* String literals of the program.                                         *)
(***************************************************************************)
\* the two-character separator written '\\n' in the source
SEP == <<"\\", "n">>
S_Found == <<"F", "o", "u", "n", "d", " ">>
S_ResultsFor == <<" ", "r", "e", "s", "u", "l", "t", "s", " ", "f", "o", "r", " ", "'">>
S_In == <<"'", " ", "i", "n", " ">>
S_Colon == <<":">>
S_Dot == <<".">>
S_DotPage == <<".", " ", "P", "a", "g", "e", " ">>
S_ColonDots == <<":", " ", ".", ".", ".">>
S_Dots == <<".", ".", ".">>
S_NoResultsFor == <<"N", "o", " ", "r", "e", "s", "u", "l", "t", "s", " ", "f", "o", "u", "n", "d", " ", "f", "o", "r", " ", "'">>
S_NoResults == <<"N", "o", " ", "r", "e", "s", "u", "l", "t", "s", " ", "f", "o", "u", "n", "d">>
S_Error == <<"E", "r", "r", "o", "r">>
S_Page == <<"P", "a", "g", "e", " ">>
S_FileNotFound == <<"E", "r", "r", "o", "r", ":", " ", "P", "D", "F", " ", "f", "i", "l", "e", " ", "n", "o", "t", " ", "f", "o", "u", "n", "d", ":", " ">>
S_SearchError == <<"E", "r", "r", "o", "r", " ", "s", "e", "a", "r", "c", "h", "i", "n", "g", " ", "P", "D", "F", ":", " ">>
S_DotPdf == <<".", "p", "d", "f">>
S_PageOpen == <<"-", "-", "-", " ", "P", "a", "g", "e", " ">>
S_PageClose == <<" ", "-", "-", "-">>

(***************************************************************************)
(* The file system and the PDF library: a fixed set of files.  A document  *)
(* is the opaque fitz handle: page texts, outline, metadata, and the       *)
(* capabilities that raise.                                                *)
(***************************************************************************)
\* str(e) of an exception raised by the PDF library
E_Decode == <<"b", "a", "d">>
S_Dir == <<"/", "d", "/">>

T_query == <<"T", "h", "i", "s", " ", "i", "s", " ", "s", "o", "m", "e", " ", "t", "e", "x", "t", " ", "w", "i", "t", "h", " ", "t", "h", "e", " ", "q", "u", "e", "r", "y", " ", "t", "e", "r", "m", " ", "i", "n", " ", "i", "t">>
T_aaa == <<"a", "a", "a">>
T_mixed == <<"A", "b", " ", "\n", " ", "a", "B", " ", " ", "a", "b">>
T_inject == <<"x", "\\", "n", "2", ".", " ", "P", "a", "g", "e", " ", "1", ":", " ", "y">>
T_x == <<"x">>
T_error == <<"E", "r", "r", "o", "r", " ", "x">>
T_ab == <<"a", " ", "b">>
T_blank == <<" ", "\n">>

N_missing == <<"n", "o", ".", "p", "d", "f">>
N_txt == <<"n", ".", "t", "x", "t">>
N_corrupt == <<"c", ".", "p", "d", "f">>
N_test == <<"f", "i", "l", "e", ".", "p", "d", "f">>
N_small == <<"s", ".", "p", "d", "f">>
N_inject == <<"i", ".", "p", "d", "f">>
N_error == <<"e", ".", "p", "d", "f">>
N_badpage == <<"b", ".", "p", "d", "f">>
N_blank == <<"k", ".", "p", "d", "f">>
N_nolen == <<"l", ".", "p", "d", "f">>
N_nometa == <<"m", ".", "p", "d", "f">>

Files == {"missing", "txt", "corrupt", "test", "small", "inject", "error",
          "badpage", "blank", "nolen", "nometa"}

NoToc == <<>>
NoMeta == [k \in {} |-> ""]

MkDoc(name, exists, decodes, pages, bad_pages, raises, toc, metadata) ==
  [name |-> name, path |-> S_Dir \o name, exists |-> exists, decodes |-> decodes,
   pages |-> pages, bad_pages |-> bad_pages, raises |-> raises, toc |-> toc,
   metadata |-> metadata]

Doc(f) ==
  CASE f = "missing" -> MkDoc(N_missing, FALSE, FALSE, <<>>, {}, {}, NoToc, NoMeta)
    [] f = "txt"     -> MkDoc(N_txt, TRUE, TRUE, <<T_aaa>>, {}, {}, NoToc, NoMeta)
    [] f = "corrupt" -> MkDoc(N_corrupt, TRUE, FALSE, <<>>, {}, {}, NoToc, NoMeta)
    [] f = "test"    -> MkDoc(N_test, TRUE, TRUE, <<T_query>>, {}, {}, NoToc,
                              [author |-> "Test Author", title |-> "Test Document"])
    [] f = "small"   -> MkDoc(N_small, TRUE, TRUE, <<T_aaa, T_mixed, T_aaa>>, {}, {},
                              <<[level |-> 1, page |-> 1, title |-> "Introduction"],
                                [level |-> 2, page |-> 2, title |-> "Methods"]>>,
                              [subject |-> "Test Subject", title |-> "Unknown"])
    [] f = "inject"  -> MkDoc(N_inject, TRUE, TRUE, <<T_inject, T_x>>, {}, {}, NoToc, NoMeta)
    [] f = "error"   -> MkDoc(N_error, TRUE, TRUE, <<T_error>>, {}, {}, NoToc, NoMeta)
    [] f = "badpage" -> MkDoc(N_badpage, TRUE, TRUE, <<T_aaa, T_ab>>, {2}, {}, NoToc, NoMeta)
    [] f = "blank"   -> MkDoc(N_blank, TRUE, TRUE, <<T_ab, <<>>, T_blank, T_x>>, {}, {}, NoToc,
                              NoMeta)
    [] f = "nolen"   -> MkDoc(N_nolen, TRUE, TRUE, <<T_aaa>>, {}, {"page_count"}, NoToc, NoMeta)
    [] f = "nometa"  -> MkDoc(N_nometa, TRUE, TRUE, <<T_ab>>, {}, {"outline", "metadata"},
                              NoToc, NoMeta)

Q_a == <<"a">>
Q_aa == <<"a", "a">>
Q_x == <<"x">>
Q_Error == <<"E", "r", "r", "o", "r">>
Q_space == <<" ">>
Q_query == <<"q", "u", "e", "r", "y">>
Q_empty == <<>>

Queries == {Q_a, Q_aa, Q_x, Q_Error, Q_space, Q_query, Q_empty}

\* Path.exists()
Exists(f) == Doc(f).exists

\* fitz.open() succeeds
Decodes(f) == Doc(f).decodes

\* len(doc)
PageCount(f) == Len(Doc(f).pages)

\* doc[page_num].get_text(), page_num 0-indexed
PageText(f, page_num) == Doc(f).pages[page_num + 1]

\* the capability raises on this document
Raises(f, cap) == cap \in Doc(f).raises

\* doc[page_num].get_text() raises
TextRaises(f, page_num) == (page_num + 1) \in Doc(f).bad_pages

\* Path.suffix
Suffix(name) ==
  LET dots == {i \in 2..Len(name) : name[i] = "."}
  IN IF dots = {} THEN <<>> ELSE SubSeq(name, Max(dots), Len(name))

(***************************************************************************)
(* Config (config.py): the in-memory configuration of the server.          *)
(***************************************************************************)
SupportedReaders == {"skim", "zathura", "evince", "sumatrapdf", "acrobat"}

\* a pdf_reader that is not text: JSON null in the file, None in memory
NullReader == "<None>"

\* Config.DEFAULT_CONFIG
DEFAULT_CONFIG ==
  [max_search_results |-> DefaultMaxResults, pdf_reader |-> "skim", reader_path |-> <<>>,
   search_context_chars |-> DefaultContextChars]

\* the values set(key, value) is called with
ConfigValues(key) ==
  CASE key = "pdf_reader" -> {"skim", "Zathura", "preview", NullReader}
    [] key = "search_context_chars" -> (0..MaxContext) \cup {DefaultContextChars}
    [] key = "max_search_results" -> (0..MaxCap) \cup {DefaultMaxResults}
    [] key = "reader_path" -> {<<>>}

\* str.lower() of a reader name
ReaderLower(r) == IF r = "Zathura" THEN "zathura" ELSE r

\* the instances of Config that share the file at config_path: the one of the server
\* (server.py line 48) and one of another process
Instances == {"server", "other"}

\* the in-memory config of an instance that has not finished load_config
NoConfig == [unset |-> TRUE]

\* lines 35-36: DEFAULT_CONFIG.copy() updated with the object read from the file
Merge(defaults, user_config) ==
  [k \in DOMAIN defaults \cup DOMAIN user_config |->
     IF k \in DOMAIN user_config THEN user_config[k] ELSE defaults[k]]

\* the number of characters of a reader name
ReaderChars(r) ==
  CASE r = "skim" -> 4
    [] r = "Zathura" -> 7
    [] r = "preview" -> 7

\* the number of characters json.dump writes for the value of a key: a text in quotes,
\* an integer in decimal digits, None as null
JsonLen(key, value) ==
  CASE key = "pdf_reader" -> IF value = NullReader THEN 4 ELSE ReaderChars(value) + 2
    [] key = "reader_path" -> 4
    [] key = "search_context_chars" -> Len(IntStr(value))
    [] key = "max_search_results" -> Len(IntStr(value))
    [] key = "custom" -> 3

\* the number of characters of a key
KeyChars(key) ==
  CASE key = "pdf_reader" -> 10
    [] key = "reader_path" -> 11
    [] key = "search_context_chars" -> 20
    [] key = "max_search_results" -> 18
    [] key = "custom" -> 6

RECURSIVE SumOver(_, _)
\* the sum of the lengths of the entries of obj for the keys in ks
SumOver(obj, ks) ==
  IF ks = {} THEN 0
  ELSE LET k == CHOOSE x \in ks : TRUE
       IN (2 + (KeyChars(k) + 2) + 2 + JsonLen(k, obj[k])) + SumOver(obj, ks \ {k})

\* line 49: the number of characters of json.dump(config, f, indent=2): "{", a line
\* break, the entries (two spaces, the key in quotes, ": ", the value) separated by ","
\* and a line break, a line break, "}"
DumpLen(obj) ==
  LET n == Cardinality(DOMAIN obj)
  IN IF n = 0 THEN 2 ELSE 2 + SumOver(obj, DOMAIN obj) + 2 * (n - 1) + 2

\* the contents of the file at config_path
\*   kind "missing":     no file
\*   kind "object":      the JSON text of the object `object`
\*   kind "invalid":     text that json.load rejects with JSONDecodeError (empty, cut
\*                       short, or an object followed by the rest of a longer text)
\*   kind "nonobject":   JSON text of a value that is not an object (null, 42, [1], "ab")
\*   kind "undecodable": bytes that are not text in the encoding of open()
\* len is the number of characters of the file
File(kind, object, len) == [kind |-> kind, object |-> object, len |-> len]

NoObject == [none |-> TRUE]
MissingFile == File("missing", NoObject, 0)
FileObject(obj) == File("object", obj, DumpLen(obj))

\* line 48: open(config_path, 'w') creates the file or cuts it to length 0
Truncated == File("invalid", NoObject, 0)

\* line 49 and the end of the with block: the text of obj is written from offset 0 of
\* the file as it is now; what the file holds beyond the text stays
Overlay(file, obj) ==
  IF DumpLen(obj) >= file.len THEN FileObject(obj)
  ELSE File("invalid", NoObject, file.len)

(***************************************************************************)
(* search_pdf_text: context extraction and rendering.                      *)
(***************************************************************************)
\* mutant of Context: the window ends at pos, not at pos + len(query)
ContextNoQueryLen(text, query, pos, context_chars) ==
  LET context_start == Max({0, pos - (context_chars \div 2)})
      context_end == Min({Len(text), pos + (context_chars \div 2)})
  IN JoinSplit(Strip(Slice(text, context_start, context_end)), FALSE)

\* lines 104-109: the context of a match at pos
Context(text, query, pos, context_chars) ==
  LET context_start == Max({0, pos - (context_chars \div 2)})
      context_end == Min({Len(text), pos + Len(query) + (context_chars \div 2)})
  IN JoinSplit(Strip(Slice(text, context_start, context_end)), FALSE)

\* line 99: text_lower.find(query_lower, start)
FindMatch(text, query, start) == Find(Lower(text), Lower(query), start)

\* line 120: the number of results recorded for a page
CountOnPage(rs, page) == Cardinality({i \in 1..Len(rs) : rs[i].page = page})

\* mutant of PageCapReached: > for >=
PageCapReachedOffByOne(rs, page) == CountOnPage(rs, page) > PerPageCap

\* line 120: the page has its full share of results
PageCapReached(rs, page) == CountOnPage(rs, page) >= PerPageCap

\* line 135: one result line
ResultLine(i, r) ==
  IntStr(i) \o S_DotPage \o IntStr(r.page) \o S_ColonDots \o r.context \o S_Dots

\* lines 133-137: the rendered report
Render(rs, query, name) ==
  LET header == S_Found \o IntStr(Len(rs)) \o S_ResultsFor \o query \o S_In \o name
                  \o S_Colon \o SEP
  IN JoinWith(<<header>> \o [i \in 1..Len(rs) |-> ResultLine(i, rs[i])], SEP)

\* line 130
NoResultsText(query, name) == S_NoResultsFor \o query \o S_In \o name

\* lines 129-137
Report(rs, query, name) ==
  IF rs = <<>> THEN NoResultsText(query, name) ELSE Render(rs, query, name)

(***************************************************************************)
(* search_and_open: addressing a result in the rendered text.              *)
(***************************************************************************)
\* line 163: the search result is returned as it is
IsPassedThrough(search_result) ==
  Contains(search_result, S_NoResults) \/ Contains(search_result, S_Error)

\* line 168: the lines whose trimmed form starts with "{result_index}."
ResultLines(search_result, result_index) ==
  SelectSeq(SplitOn(search_result, SEP),
            LAMBDA line : StartsWith(Strip(line), IntStr(result_index) \o S_Dot))

\* line 177: result_line.split("Page ")[1].split(":")[0]; ok = FALSE is IndexError
PagePart(result_line) ==
  LET parts == SplitOn(result_line, S_Page)
  IN IF Len(parts) < 2 THEN [ok |-> FALSE, text |-> <<>>]
     ELSE [ok |-> TRUE, text |-> SplitOn(parts[2], S_Colon)[1]]

\* lines 167-185: the page addressed by result_index
\*   kind "not_found": no line (line 171); "parse_error": IndexError or ValueError
\*   (line 185); "page": the page number handed to open_pdf_page
AddressOf(search_result, result_index) ==
  LET result_lines == ResultLines(search_result, result_index)
  IN IF result_lines = <<>> THEN [kind |-> "not_found", page |-> 0]
     ELSE LET part == PagePart(result_lines[1])
              num == PyInt(part.text)
          IN IF part.ok /\ num.ok THEN [kind |-> "page", page |-> num.val]
             ELSE [kind |-> "parse_error", page |-> 0]

(***************************************************************************)
(* Operations that run in one step.  Each yields its return value, the     *)
(* sequence of document capabilities it invoked (events) and the viewer    *)
(* processes it started (launches).                                        *)
(***************************************************************************)
Outcome(result, events, launches) ==
  [result |-> result, events |-> events, launches |-> launches]

\* lines 50-68: dispatch on the configured reader; .lower() of a reader that is not
\* text raises AttributeError outside the try block (line 51)
LaunchReader(f, page_number, cfg, events, launchFails) ==
  LET reader == ReaderLower(cfg.pdf_reader)
  IN IF cfg.pdf_reader = NullReader
     THEN Outcome([kind |-> "Raised", error |-> "AttributeError"], events, <<>>)
     ELSE IF reader \notin SupportedReaders
     THEN Outcome([kind |-> "UnsupportedReader", reader |-> reader], events, <<>>)
     ELSE IF launchFails
     THEN Outcome([kind |-> "OpenError"], events,
                  <<[reader |-> reader, page |-> page_number]>>)
     ELSE Outcome([kind |-> "Opened", name |-> Doc(f).name, page |-> page_number], events,
                  <<[reader |-> reader, page |-> page_number]>>)

\* PDFNavigator.open_pdf_page
\*   closedLenRaises: len(doc) on the closed document (line 45) raises
\*   launchFails: subprocess.run raises
OpenPdfPageRun(f, page_number, cfg, closedLenRaises, launchFails) ==
  IF ~Exists(f) THEN Outcome([kind |-> "FileNotFound"], <<>>, <<>>)
  ELSE IF Lower(Suffix(Doc(f).name)) # S_DotPdf THEN Outcome([kind |-> "NotAPdf"], <<>>, <<>>)
  ELSE IF ~Decodes(f) THEN Outcome([kind |-> "ReadError", msg |-> "decode"], <<>>, <<>>)
  ELSE IF page_number < 1
  THEN Outcome(IF closedLenRaises \/ Raises(f, "page_count")
               THEN [kind |-> "ReadError", msg |-> "closed"]
               ELSE [kind |-> "PageOutOfRange", page |-> page_number, lo |-> 1,
                     hi |-> PageCount(f)],
               <<"open", "close", "page_count">>, <<>>)
  ELSE IF Raises(f, "page_count")
  THEN Outcome([kind |-> "ReadError", msg |-> "page_count"], <<"open", "page_count">>, <<>>)
  ELSE IF page_number > PageCount(f)
  THEN Outcome(IF closedLenRaises THEN [kind |-> "ReadError", msg |-> "closed"]
               ELSE [kind |-> "PageOutOfRange", page |-> page_number, lo |-> 1,
                     hi |-> PageCount(f)],
               <<"open", "page_count", "close", "page_count">>, <<>>)
  ELSE LaunchReader(f, page_number, cfg, <<"open", "page_count", "close">>, launchFails)

\* mutant of TextParts: a page is emitted whether or not its trimmed text is empty
RECURSIVE TextPartsKeepEmpty(_, _, _)
TextPartsKeepEmpty(f, first, last) ==
  IF first > last THEN <<>>
  ELSE <<[page |-> first, text |-> PageText(f, first - 1)]>>
       \o TextPartsKeepEmpty(f, first + 1, last)

\* lines 178-182: the blocks of the pages first..last with non-empty trimmed text
RECURSIVE TextParts(_, _, _)
TextParts(f, first, last) ==
  IF first > last THEN <<>>
  ELSE (IF Strip(PageText(f, first - 1)) # <<>>
        THEN <<[page |-> first, text |-> PageText(f, first - 1)]>> ELSE <<>>)
       \o TextParts(f, first + 1, last)

\* line 182: f"--- Page {page_num + 1} ---\\n{page_text}"
TextBlock(part) == S_PageOpen \o IntStr(part.page) \o S_PageClose \o SEP \o part.text

\* line 189: "\\n\\n".join(text_parts)
RenderText(text_parts) ==
  JoinWith([i \in 1..Len(text_parts) |-> TextBlock(text_parts[i])], SEP \o SEP)

\* an optional integer argument: None, or the one-element sequence of its value
None == <<>>
Some(n) == <<n>>

\* lines 176-192: extraction over a validated range
ExtractRange(f, start_page, end_page) ==
  LET bad == {p \in start_page..end_page : TextRaises(f, p - 1)}
      reads(n) == [i \in 1..n |-> "page_text"]
  IN IF bad # {}
     THEN Outcome([kind |-> "ReadError", msg |-> "page_text"],
                  <<"open", "page_count">> \o reads(Min(bad) - start_page + 1), <<>>)
     ELSE LET text_parts == TextParts(f, start_page, end_page)
          IN Outcome(IF text_parts = <<>>
                     THEN [kind |-> "NoText", start |-> start_page, end |-> end_page,
                           name |-> Doc(f).name]
                     ELSE [kind |-> "Text", parts |-> text_parts,
                           text |-> RenderText(text_parts)],
                     <<"open", "page_count">> \o reads(end_page - start_page + 1)
                       \o <<"close">>, <<>>)

\* mutant of ValidateRange: the start <= end check is missing
ValidateRangeNoOrder(start_page, end_page, total_pages) ==
  IF start_page < 1 \/ start_page > total_pages THEN "StartOutOfRange"
  ELSE IF end_page # None /\ (end_page[1] < 1 \/ end_page[1] > total_pages)
  THEN "EndOutOfRange"
  ELSE "ok"

\* mutant of ValidateRange: end_page is checked before start_page
ValidateRangeEndFirst(start_page, end_page, total_pages) ==
  IF end_page # None /\ (end_page[1] < 1 \/ end_page[1] > total_pages)
  THEN "EndOutOfRange"
  ELSE IF start_page < 1 \/ start_page > total_pages THEN "StartOutOfRange"
  ELSE IF start_page > (IF end_page = None THEN total_pages ELSE end_page[1])
  THEN "InvalidRange"
  ELSE "ok"

\* lines 161-174: the first check of the page range that fails, or "ok"
ValidateRange(start_page, end_page, total_pages) ==
  IF start_page < 1 \/ start_page > total_pages THEN "StartOutOfRange"
  ELSE IF end_page # None /\ (end_page[1] < 1 \/ end_page[1] > total_pages)
  THEN "EndOutOfRange"
  ELSE IF start_page > (IF end_page = None THEN total_pages ELSE end_page[1])
  THEN "InvalidRange"
  ELSE "ok"

\* PDFNavigator.read_pdf_text
ReadPdfTextRun(f, start_page, end_page) ==
  LET total_pages == PageCount(f)
      closed == <<"open", "page_count", "close">>
  IN IF ~Exists(f) THEN Outcome([kind |-> "FileNotFound"], <<>>, <<>>)
     ELSE IF ~Decodes(f) THEN Outcome([kind |-> "ReadError", msg |-> "decode"], <<>>, <<>>)
     ELSE IF Raises(f, "page_count")
     THEN Outcome([kind |-> "ReadError", msg |-> "page_count"], <<"open", "page_count">>, <<>>)
     ELSE LET check == ValidateRange(start_page, end_page, total_pages)
              last == IF end_page = None THEN total_pages ELSE end_page[1]
          IN CASE check = "StartOutOfRange" ->
                    Outcome([kind |-> "StartOutOfRange", page |-> start_page, lo |-> 1,
                             hi |-> total_pages], closed, <<>>)
               [] check = "EndOutOfRange" ->
                    Outcome([kind |-> "EndOutOfRange", page |-> end_page[1], lo |-> 1,
                             hi |-> total_pages], closed, <<>>)
               [] check = "InvalidRange" ->
                    Outcome([kind |-> "InvalidRange", start |-> start_page, end |-> last],
                            closed, <<>>)
               [] OTHER -> ExtractRange(f, start_page, last)

\* mutant of ReadPdfPageRun: the end page is left out, so the read runs to the end
ReadPdfPageRunToEnd(f, page_number) ==
  ReadPdfTextRun(f, page_number, None)

\* PDFNavigator.read_pdf_page
ReadPdfPageRun(f, page_number) ==
  ReadPdfTextRun(f, page_number, Some(page_number))

\* lines 232-237: the summary of one page
PageSummary(text) ==
  LET lines == SplitOn(text, SEP)
      non_empty == [i \in 1..Len(SelectSeq(lines, LAMBDA l : Strip(l) # <<>>)) |->
                      Strip(SelectSeq(lines, LAMBDA l : Strip(l) # <<>>)[i])]
      summary == JoinWith(SubSeq(non_empty, 1, Min({3, Len(non_empty)})), <<" ">>)
  IN Slice(summary, 0, Min({100, Len(summary)}))

\* lines 226-237: the summaries of pages 1..n with a non-empty summary
RECURSIVE PageSummaries(_, _)
PageSummaries(f, n) ==
  IF n = 0 THEN <<>>
  ELSE PageSummaries(f, n - 1) \o
       (IF PageSummary(PageText(f, n - 1)) # <<>>
        THEN <<[page |-> n, summary |-> PageSummary(PageText(f, n - 1)) \o S_Dots]>>
        ELSE <<>>)

\* PDFNavigator.get_pdf_structure
\*   closedLenRaises: len(doc) on the closed document (line 243) raises
GetPdfStructureRun(f, closedLenRaises) ==
  LET n == PageCount(f)
      bad == {p \in 1..n : TextRaises(f, p - 1)}
      reads(k) == [i \in 1..k |-> "page_text"]
      err(msg) == [kind |-> "StructureError", msg |-> msg]
  IN IF ~Exists(f) THEN Outcome([kind |-> "FileNotFound"], <<>>, <<>>)
     ELSE IF ~Decodes(f) THEN Outcome(err("decode"), <<>>, <<>>)
     ELSE IF Raises(f, "outline") THEN Outcome(err("outline"), <<"open", "outline">>, <<>>)
     ELSE IF Raises(f, "page_count")
     THEN Outcome(err("page_count"), <<"open", "outline", "page_count">>, <<>>)
     ELSE IF bad # {}
     THEN Outcome(err("page_text"), <<"open", "outline", "page_count">> \o reads(Min(bad)), <<>>)
     ELSE Outcome(IF closedLenRaises THEN err("closed")
                  ELSE [kind |-> "Structure", name |-> Doc(f).name, pages |-> n,
                        toc |-> Doc(f).toc, page_summaries |-> PageSummaries(f, n)],
                  <<"open", "outline", "page_count">> \o reads(n) \o <<"close", "page_count">>,
                  <<>>)

\* metadata.get(key, 'Unknown')
MetaGet(metadata, key) == IF key \in DOMAIN metadata THEN metadata[key] ELSE "Unknown"

\* lines 291-300: the lines of the report after the header and the page count
InfoLines(metadata) ==
  SelectSeq(<<[label |-> "Title", value |-> MetaGet(metadata, "title")],
              [label |-> "Author", value |-> MetaGet(metadata, "author")],
              [label |-> "Subject", value |-> MetaGet(metadata, "subject")]>>,
            LAMBDA l : l.value # "Unknown")

\* PDFNavigator.get_pdf_info
GetPdfInfoRun(f) ==
  LET err(msg) == [kind |-> "InfoError", msg |-> msg]
  IN IF ~Exists(f) THEN Outcome([kind |-> "FileNotFound"], <<>>, <<>>)
     ELSE IF ~Decodes(f) THEN Outcome(err("decode"), <<>>, <<>>)
     ELSE IF Raises(f, "metadata") THEN Outcome(err("metadata"), <<"open", "metadata">>, <<>>)
     ELSE IF Raises(f, "page_count")
     THEN Outcome(err("page_count"), <<"open", "metadata", "page_count">>, <<>>)
     ELSE Outcome([kind |-> "Info", filename |-> Doc(f).name, pages |-> PageCount(f),
                   lines |-> InfoLines(Doc(f).metadata)],
                  <<"open", "metadata", "page_count", "close">>, <<>>)

(***************************************************************************)
(* State.                                                                  *)
(***************************************************************************)
VARIABLES
  config,         \* Config.config of the server's Config instance
  config_file,    \* the contents of the file at Config.config_path
  other_config,   \* Config.config of the Config instance of another process
  config_pc,      \* position of each Config instance: "new" before construction,
                  \* "load_write" and "set_write" between open(path, 'w') and the end of
                  \* save_config, "ready", "raised" when the constructor has raised
  last_writer,    \* the instance whose save_config wrote the file last, or "none"
  io_failed,      \* an open(path, 'w') of save_config has failed with IOError
  load_wrote,     \* a constructor has opened the file for writing the defaults
  pc,             \* position of the invocation: "idle" between invocations, "done"
                  \* when it has returned
  call,           \* the tool invocation being served, or the last one served
  page_num,       \* search_pdf_text: the page being scanned (0-indexed)
  start,          \* search_pdf_text: the search-from offset in the page
  results,        \* search_pdf_text: the matches recorded so far
  search_result,  \* the text returned by search_pdf_text
  events,         \* document capabilities invoked by this invocation, in order
  opened,         \* search_and_open: the page numbers handed to open_pdf_page
  launches,       \* viewer processes started by this invocation
  result,         \* the value returned by the invocation
  raw             \* the integer arguments of the invocation as the client sent them

config_state == <<config, config_file, other_config, config_pc, last_writer, io_failed,
                  load_wrote>>

vars == <<config_state, pc, call, page_num, start, results, search_result, events, opened,
          launches, result, raw>>

Tools == {"open_pdf_page", "search_pdf_text", "get_pdf_info", "read_pdf_text",
          "read_pdf_page", "get_pdf_structure", "search_and_open"}

Call(tool, f, query, result_index, start_page, end_page, page_number) ==
  [end_page |-> end_page, file |-> f, page_number |-> page_number, query |-> query,
   result_index |-> result_index, start_page |-> start_page, tool |-> tool]

NoCall == Call("none", "missing", <<>>, 0, 0, None, 0)
NoResult == [kind |-> "none"]

PageArgs == -1..MaxPageArg
IndexArgs == -1..MaxIndex

Init ==
  /\ config = DEFAULT_CONFIG
  /\ config_file = FileObject(DEFAULT_CONFIG)
  /\ other_config = NoConfig
  /\ config_pc = [i \in Instances |-> IF i = "server" THEN "ready" ELSE "new"]
  /\ last_writer = "server"
  /\ io_failed = FALSE
  /\ load_wrote = TRUE
  /\ pc = "idle"
  /\ call = NoCall
  /\ page_num = 0
  /\ start = 0
  /\ results = <<>>
  /\ search_result = <<>>
  /\ events = <<>>
  /\ opened = <<>>
  /\ launches = <<>>
  /\ result = NoResult
  /\ raw = <<>>

\* self.config of an instance
ConfigOf(instance) == IF instance = "server" THEN config ELSE other_config

\* self.config = c
AssignConfig(instance, c) ==
  IF instance = "server" THEN config' = c /\ UNCHANGED other_config
  ELSE other_config' = c /\ UNCHANGED config

\* the tool state, which the methods of Config leave alone
tool_state == <<pc, call, page_num, start, results, search_result, events, opened, launches,
                result, raw>>

\* Config.__init__ and load_config up to the return of line 37, the open(path, 'w') of
\* the save_config of line 42, or the exception of json.load or update
\*   io_ok: open(path, 'w') succeeds
Construct(instance, io_ok) ==
  /\ config_pc[instance] = "new"
  /\ IF config_file.kind = "object"
     THEN /\ io_ok
          /\ AssignConfig(instance, Merge(DEFAULT_CONFIG, config_file.object))
          /\ config_pc' = [config_pc EXCEPT ![instance] = "ready"]
          /\ UNCHANGED <<config_file, io_failed, load_wrote>>
     ELSE IF config_file.kind \in {"nonobject", "undecodable"}
     THEN /\ io_ok
          /\ config_pc' = [config_pc EXCEPT ![instance] = "raised"]
          /\ UNCHANGED <<config, other_config, config_file, io_failed, load_wrote>>
     ELSE IF io_ok
     THEN /\ config_file' = Truncated
          /\ config_pc' = [config_pc EXCEPT ![instance] = "load_write"]
          /\ load_wrote' = TRUE
          /\ UNCHANGED <<config, other_config, io_failed>>
     ELSE /\ AssignConfig(instance, DEFAULT_CONFIG)
          /\ config_pc' = [config_pc EXCEPT ![instance] = "ready"]
          /\ io_failed' = TRUE
          /\ UNCHANGED <<config_file, load_wrote>>
  /\ UNCHANGED <<last_writer, tool_state>>

\* Config.set(key, value) up to the open(path, 'w') of save_config: the value is stored
\* in memory (line 59) and the file is opened for writing (line 48); the server calls it
\* between tool invocations
\*   io_ok: open(path, 'w') succeeds
Set(instance, key, value, io_ok) ==
  /\ config_pc[instance] = "ready"
  /\ instance = "server" => pc = "idle"
  /\ AssignConfig(instance, [ConfigOf(instance) EXCEPT ![key] = value])
  /\ IF io_ok
     THEN /\ config_file' = Truncated
          /\ config_pc' = [config_pc EXCEPT ![instance] = "set_write"]
          /\ UNCHANGED io_failed
     ELSE /\ io_failed' = TRUE
          /\ UNCHANGED <<config_file, config_pc>>
  /\ UNCHANGED <<last_writer, load_wrote, tool_state>>

\* save_config lines 49-51: json.dump writes the object and the file is closed;
\* load_config then returns a copy of the defaults (line 43)
SaveConfigWrite(instance) ==
  /\ config_pc[instance] \in {"load_write", "set_write"}
  /\ IF config_pc[instance] = "load_write"
     THEN /\ config_file' = Overlay(config_file, DEFAULT_CONFIG)
          /\ AssignConfig(instance, DEFAULT_CONFIG)
     ELSE /\ config_file' = Overlay(config_file, ConfigOf(instance))
          /\ UNCHANGED <<config, other_config>>
  /\ config_pc' = [config_pc EXCEPT ![instance] = "ready"]
  /\ last_writer' = instance
  /\ UNCHANGED <<io_failed, load_wrote, tool_state>>

\* the server is between tool invocations and not inside a method of its Config
Idle == pc = "idle" /\ config_pc["server"] = "ready"

\* a ValueError of safe_int leaves the tool before any work on the document
InvalidArgument == Outcome([kind |-> "InvalidArgument"], <<>>, <<>>)

\* an invocation that runs in one step returns
Return(c, args, outcome) ==
  /\ Idle
  /\ call' = c
  /\ raw' = args
  /\ result' = outcome.result
  /\ events' = outcome.events
  /\ launches' = outcome.launches
  /\ opened' = <<>>
  /\ results' = <<>>
  /\ search_result' = <<>>
  /\ page_num' = 0
  /\ start' = 0
  /\ pc' = "done"
  /\ UNCHANGED <<config_state>>

\* server.open_pdf_page
OpenPdfPage(f, page_number) ==
  LET n == safe_int(page_number)
  IN IF ~n.ok
     THEN Return(Call("open_pdf_page", f, <<>>, 0, 0, None, 0), <<page_number>>,
                 InvalidArgument)
     ELSE \E closedLenRaises \in BOOLEAN, launchFails \in BOOLEAN :
            Return(Call("open_pdf_page", f, <<>>, 0, 0, None, n.val), <<page_number>>,
                   OpenPdfPageRun(f, n.val, config, closedLenRaises, launchFails))

\* server.read_pdf_text
ReadPdfText(f, start_page, end_page) ==
  LET s == safe_int(start_page)
      e == IF end_page = None THEN [ok |-> TRUE, val |-> 0] ELSE safe_int(end_page[1])
      end == IF end_page = None THEN None ELSE Some(e.val)
  IN IF ~s.ok \/ ~e.ok
     THEN Return(Call("read_pdf_text", f, <<>>, 0, 0, None, 0), <<start_page>> \o end_page,
                 InvalidArgument)
     ELSE Return(Call("read_pdf_text", f, <<>>, 0, s.val, end, 0), <<start_page>> \o end_page,
                 ReadPdfTextRun(f, s.val, end))

\* server.read_pdf_page
ReadPdfPage(f, page_number) ==
  LET n == safe_int(page_number)
  IN IF ~n.ok
     THEN Return(Call("read_pdf_page", f, <<>>, 0, 0, None, 0), <<page_number>>,
                 InvalidArgument)
     ELSE Return(Call("read_pdf_page", f, <<>>, 0, 0, None, n.val), <<page_number>>,
                 ReadPdfPageRun(f, n.val))

\* server.get_pdf_structure
GetPdfStructure(f) ==
  \E closedLenRaises \in BOOLEAN :
    Return(Call("get_pdf_structure", f, <<>>, 0, 0, None, 0), <<>>,
           GetPdfStructureRun(f, closedLenRaises))

\* server.get_pdf_info
GetPdfInfo(f) ==
  Return(Call("get_pdf_info", f, <<>>, 0, 0, None, 0), <<>>, GetPdfInfoRun(f))

\* search_pdf_text returns text, having invoked the capabilities ev
SearchReturn(tool, text, ev) ==
  /\ search_result' = text
  /\ events' = ev
  /\ pc' = IF tool = "search_and_open" THEN "parse" ELSE "done"
  /\ result' = IF tool = "search_and_open" THEN NoResult
               ELSE [kind |-> "SearchText", text |-> text]

\* search_pdf_text lines 80-89: up to the first iteration of the page loop
SearchEnter(c, args) ==
  /\ Idle
  /\ call' = c
  /\ raw' = args
  /\ results' = <<>>
  /\ page_num' = 0
  /\ start' = 0
  /\ opened' = <<>>
  /\ launches' = <<>>
  /\ UNCHANGED <<config_state>>
  /\ IF ~Exists(c.file) THEN SearchReturn(c.tool, S_FileNotFound \o Doc(c.file).path, <<>>)
     ELSE IF ~Decodes(c.file) THEN SearchReturn(c.tool, S_SearchError \o E_Decode, <<>>)
     ELSE IF Raises(c.file, "page_count")
     THEN SearchReturn(c.tool, S_SearchError \o E_Decode, <<"open", "page_count">>)
     ELSE /\ pc' = "for_page"
          /\ events' = <<"open", "page_count">>
          /\ search_result' = <<>>
          /\ result' = NoResult

\* server.search_pdf_text
SearchPdfText(f, query) ==
  SearchEnter(Call("search_pdf_text", f, query, 0, 0, None, 0), <<>>)

\* server.search_and_open, lines 159-161
SearchAndOpen(f, query, result_index) ==
  LET i == safe_int(result_index)
  IN IF ~i.ok
     THEN Return(Call("search_and_open", f, query, 0, 0, None, 0), <<result_index>>,
                 InvalidArgument)
     ELSE SearchEnter(Call("search_and_open", f, query, i.val, 0, None, 0),
                      <<result_index>>)

\* lines 89-97: the page loop takes the next page, or ends
SearchForPage ==
  /\ pc = "for_page"
  /\ IF page_num >= PageCount(call.file)
     THEN /\ pc' = "close"
          /\ UNCHANGED <<start, events, search_result, result>>
     ELSE IF TextRaises(call.file, page_num)
     THEN /\ SearchReturn(call.tool, S_SearchError \o E_Decode, Append(events, "page_text"))
          /\ UNCHANGED start
     ELSE /\ pc' = "scan"
          /\ start' = 0
          /\ events' = Append(events, "page_text")
          /\ UNCHANGED <<search_result, result>>
  /\ UNCHANGED <<config_state, call, page_num, results, opened, launches, raw>>

\* mutant of NextStart: the search continues after the whole match
NextStartPastMatch(pos, query) == pos + Len(query)

\* mutant of NextStart: the search continues from the hit itself
NextStartAtMatch(pos, query) == pos

\* line 117: the next search-from offset after a hit at pos
NextStart(pos, query) == pos + 1

\* lines 98-121: one iteration of the scan of a page
SearchScan ==
  /\ pc = "scan"
  /\ LET text == PageText(call.file, page_num)
         pos == FindMatch(text, call.query, start)
         match == [page |-> page_num + 1,
                   context |-> Context(text, call.query, pos, config.search_context_chars),
                   position |-> pos]
     IN IF pos = -1
        THEN /\ pc' = "page_end"
             /\ UNCHANGED <<results, start>>
        ELSE /\ results' = Append(results, match)
             /\ start' = NextStart(pos, call.query)
             /\ pc' = IF PageCapReached(Append(results, match), page_num + 1)
                      THEN "page_end" ELSE "scan"
  /\ UNCHANGED <<config_state, call, page_num, search_result, events, opened,
                 launches, result, raw>>

\* mutant of GlobalCapReached: the scan goes on until the total exceeds the cap
GlobalCapReachedExceeds(rs, max_search_results) == Len(rs) > max_search_results

\* line 124: the test of the global cap
GlobalCapReached(rs, max_search_results) == Len(rs) >= max_search_results

\* lines 123-125: the global cap, tested when a page is finished
SearchPageEnd ==
  /\ pc = "page_end"
  /\ IF GlobalCapReached(results, config.max_search_results)
     THEN pc' = "close" /\ UNCHANGED page_num
     ELSE pc' = "for_page" /\ page_num' = page_num + 1
  /\ UNCHANGED <<config_state, call, start, results, search_result, events, opened,
                 launches, result, raw>>

\* mutant of DocClose: the handle is left open
DocCloseSkipped(ev) == ev

\* line 127: doc.close()
DocClose(ev) == Append(ev, "close")

\* lines 127-137: close the document and render the report
SearchClose ==
  /\ pc = "close"
  /\ SearchReturn(call.tool, Report(results, call.query, Doc(call.file).name),
                  DocClose(events))
  /\ UNCHANGED <<config_state, call, page_num, start, results, opened, launches,
                 raw>>

\* search_and_open lines 163-185: address the result and open its page
SearchAndOpenParse ==
  /\ pc = "parse"
  /\ pc' = "done"
  /\ IF IsPassedThrough(search_result)
     THEN /\ result' = [kind |-> "SearchText", text |-> search_result]
          /\ UNCHANGED <<events, opened, launches>>
     ELSE LET addr == AddressOf(search_result, call.result_index)
          IN IF addr.kind = "not_found"
             THEN /\ result' = [kind |-> "ResultNotFound", index |-> call.result_index]
                  /\ UNCHANGED <<events, opened, launches>>
             ELSE IF addr.kind = "parse_error"
             THEN /\ result' = [kind |-> "ParseError", index |-> call.result_index]
                  /\ UNCHANGED <<events, opened, launches>>
             ELSE \E closedLenRaises \in BOOLEAN, launchFails \in BOOLEAN :
                    LET o == OpenPdfPageRun(call.file, addr.page, config, closedLenRaises,
                                            launchFails)
                    IN /\ result' = [kind |-> "SearchResultOpened",
                                     index |-> call.result_index, open |-> o.result]
                       /\ opened' = Append(opened, addr.page)
                       /\ events' = events \o o.events
                       /\ launches' = o.launches
  /\ UNCHANGED <<config_state, call, page_num, start, results, search_result, raw>>

\* the return value goes back to the caller; the invocation's locals are gone
Respond ==
  /\ pc = "done"
  /\ pc' = "idle"
  /\ call' = NoCall
  /\ page_num' = 0
  /\ start' = 0
  /\ results' = <<>>
  /\ search_result' = <<>>
  /\ events' = <<>>
  /\ opened' = <<>>
  /\ launches' = <<>>
  /\ result' = NoResult
  /\ raw' = <<>>
  /\ UNCHANGED <<config_state>>

Next ==
  \/ \E key \in DOMAIN DEFAULT_CONFIG : \E value \in ConfigValues(key) :
       Set("server", key, value, TRUE)
  \/ SaveConfigWrite("server")
  \/ pc = "idle" /\ \E f \in Files, n \in PageArgs : OpenPdfPage(f, IntArg(n))
  \/ pc = "idle" /\ \E f \in Files, s \in PageArgs,
                        e \in {None} \cup {Some(IntArg(n)) : n \in PageArgs} :
                      ReadPdfText(f, IntArg(s), e)
  \/ pc = "idle" /\ \E f \in Files, n \in PageArgs : ReadPdfPage(f, IntArg(n))
  \/ pc = "idle" /\ \E f \in Files : GetPdfStructure(f)
  \/ pc = "idle" /\ \E f \in Files : GetPdfInfo(f)
  \/ pc = "idle" /\ \E f \in Files, q \in Queries : SearchPdfText(f, q)
  \/ pc = "idle" /\ \E f \in Files, q \in Queries, i \in IndexArgs :
                      SearchAndOpen(f, q, IntArg(i))
  \/ SearchForPage
  \/ SearchScan
  \/ SearchPageEnd
  \/ SearchClose
  \/ SearchAndOpenParse
  \/ Respond

Spec == Init /\ [][Next]_vars

\* search_pdf_text is sequential code: an invocation that can take its next step takes
\* it. The fairness of SearchScan is WF_vars(SearchScan) written out: the step is enabled
\* exactly when pc = "scan", and it always changes pc or results.
FairSpec ==
  /\ Spec
  /\ WF_vars(SearchForPage)
  /\ ([]<>(pc # "scan") \/ []<><<SearchScan>>_vars)
  /\ WF_vars(SearchPageEnd)
  /\ WF_vars(SearchClose)

(***************************************************************************)
(* Two Config instances on one file: construction from the files a user    *)
(* can leave at config_path, and set calls whose steps interleave.         *)
(***************************************************************************)
\* the files found at config_path: none, an empty one, the text "invalid json" of
\* test_load_invalid_config, objects with some known and unknown keys, the JSON text
\* null, and bytes that do not decode
InitialFiles ==
  {MissingFile, Truncated, File("invalid", NoObject, 12),
   FileObject([pdf_reader |-> "Zathura"]),
   FileObject([custom |-> "x", max_search_results |-> 2]),
   FileObject([pdf_reader |-> NullReader]),
   File("nonobject", NoObject, 4), File("undecodable", NoObject, 2)}

\* the keys and values set(key, value) is called with
SetKeys == {"pdf_reader", "max_search_results"}
SetValues(key) == IF key = "pdf_reader" THEN {"skim", "Zathura"} ELSE {2, DefaultMaxResults}

ConfigInit ==
  /\ config_file \in InitialFiles
  /\ config = NoConfig
  /\ other_config = NoConfig
  /\ config_pc = [i \in Instances |-> "new"]
  /\ last_writer = "none"
  /\ io_failed = FALSE
  /\ load_wrote = FALSE
  /\ pc = "idle"
  /\ call = NoCall
  /\ page_num = 0
  /\ start = 0
  /\ results = <<>>
  /\ search_result = <<>>
  /\ events = <<>>
  /\ opened = <<>>
  /\ launches = <<>>
  /\ result = NoResult
  /\ raw = <<>>

ConfigNext ==
  \/ \E instance \in Instances, io_ok \in BOOLEAN : Construct(instance, io_ok)
  \/ \E instance \in Instances, key \in SetKeys, io_ok \in BOOLEAN :
       \E value \in SetValues(key) : Set(instance, key, value, io_ok)
  \/ \E instance \in Instances : SaveConfigWrite(instance)

ConfigSpec == ConfigInit /\ [][ConfigNext]_vars

(***************************************************************************)
(* The tools whose integer parameters go through safe_int, called with     *)
(* integers and with strings.                                              *)
(***************************************************************************)
ArgFiles == {"missing", "small"}

RawArgs ==
  {IntArg(1), IntArg(-1),
   StrArg(<<"2">>), StrArg(<<"1", "0">>), StrArg(<<"-", "1">>), StrArg(<<" ", "1">>),
   StrArg(<<"2", "\n">>), StrArg(<<" ", "-", "1", "\t">>), StrArg(<<>>), StrArg(<<" ">>),
   StrArg(<<"-">>), StrArg(<<"1", ".", "5">>), StrArg(<<"+", "1">>), StrArg(<<"1", " ", "2">>),
   StrArg(<<"-", "-", "1">>), StrArg(<<"1", "-">>), StrArg(<<"a">>),
   StrArg(<<ArabicIndicThree>>), StrArg(<<SuperscriptTwo>>), StrArg(<<"1", SuperscriptTwo>>)}

ArgNext ==
  \/ pc = "idle" /\ \E f \in ArgFiles, v \in RawArgs : OpenPdfPage(f, v)
  \/ pc = "idle" /\ \E f \in ArgFiles, v \in RawArgs,
                        e \in {None} \cup {Some(w) : w \in RawArgs} : ReadPdfText(f, v, e)
  \/ pc = "idle" /\ \E f \in ArgFiles, v \in RawArgs : ReadPdfPage(f, v)
  \/ pc = "idle" /\ \E f \in ArgFiles, v \in RawArgs : SearchAndOpen(f, Q_a, v)
  \/ SearchForPage
  \/ SearchScan
  \/ SearchPageEnd
  \/ SearchClose
  \/ SearchAndOpenParse
  \/ Respond

ArgSpec == Init /\ [][ArgNext]_vars

(***************************************************************************)
(* Properties.                                                             *)
(***************************************************************************)
\* the search has rendered a report of N >= 1 matches (lines 133-137)
Rendered ==
  /\ pc \in {"parse", "done"}
  /\ call.tool \in {"search_pdf_text", "search_and_open"}
  /\ results # <<>>
  /\ search_result = Render(results, call.query, Doc(call.file).name)

\* the invocation returned with a handle it opened and did not close
Leaked(ev) ==
  \E i \in 1..Len(ev) : ev[i] = "open" /\ \A j \in (i + 1)..Len(ev) : ev[j] # "close"

\* the text matched by result r: len(query) characters of the page at r.position
Matched(r) ==
  Slice(PageText(call.file, r.page - 1), r.position, r.position + Len(call.query))

\* C1: rendering a report of N >= 1 matches and addressing every index i in 1..N as
\* search_and_open does recovers the page number of the i-th match.
C1_RoundTrip ==
  Rendered =>
    \A i \in 1..Len(results) :
      AddressOf(search_result, i) = [kind |-> "page", page |-> results[i].page]

\* C2: a report never holds more than max_search_results matches (stated for the
\* configurations with max_search_results >= 1).
C2_GlobalCap ==
  (Rendered /\ config.max_search_results >= 1) =>
    Len(results) <= config.max_search_results

\* C3: at every point of a search and in the report, no page has more than 3 matches,
\* whatever max_search_results is.
C3_PerPageCap ==
  \A p \in 1..PageCount(call.file) :
    Cardinality({i \in 1..Len(results) : results[i].page = p}) <= 3

\* a page has reached 3 matches with a further occurrence left on it, under a global
\* cap of 1
C3_Witness ==
  /\ pc = "page_end"
  /\ config.max_search_results = 1
  /\ Cardinality({i \in 1..Len(results) : results[i].page = page_num + 1}) = 3
  /\ FindMatch(PageText(call.file, page_num), call.query, start) # -1

\* C4: when the search yields N >= 1 matches and 1 <= result_index <= N, search_and_open
\* calls open_pdf_page exactly once, with the page of the result_index-th match (stated
\* for the reports in which addressing recovers that page, C1).
C4_Forwards ==
  (/\ pc = "done"
   /\ call.tool = "search_and_open"
   /\ Rendered
   /\ call.result_index \in 1..Len(results)
   /\ AddressOf(search_result, call.result_index)
        = [kind |-> "page", page |-> results[call.result_index].page])
  => opened = <<results[call.result_index].page>>

\* C5: every operation that opens a document has closed it when it returns, on every
\* exit path.
C5_HandleReleased == pc = "done" => ~Leaked(events)

\* read_pdf_text returned for a document that exists, decodes and has a page count
ReadReturned ==
  /\ pc = "done"
  /\ call.tool = "read_pdf_text"
  /\ Exists(call.file)
  /\ Decodes(call.file)
  /\ ~Raises(call.file, "page_count")

InRange(n, f) == n \in 1..PageCount(f)

\* C6, as claimed: read_pdf_text with start_page > end_page returns InvalidRange whether
\* or not the two are inside [1, page_count].
C6_Original ==
  (ReadReturned /\ call.end_page # None /\ call.start_page > call.end_page[1])
  => result.kind = "InvalidRange"

\* C6, amended: read_pdf_text with start_page > end_page returns InvalidRange when both
\* are inside [1, page_count], and the out-of-range error of start_page (first) or of
\* end_page when one of them is outside.
C6_InvalidRange ==
  (ReadReturned /\ call.end_page # None /\ call.start_page > call.end_page[1])
  => result.kind =
       IF ~InRange(call.start_page, call.file) THEN "StartOutOfRange"
       ELSE IF ~InRange(call.end_page[1], call.file) THEN "EndOutOfRange"
       ELSE "InvalidRange"

\* InvalidRange was returned for a range inside the document
C6_Witness ==
  /\ ReadReturned
  /\ result.kind = "InvalidRange"
  /\ call.end_page # None
  /\ call.start_page > call.end_page[1]
  /\ InRange(call.start_page, call.file)
  /\ InRange(call.end_page[1], call.file)

ValidationErrors == {"FileNotFound", "StartOutOfRange", "EndOutOfRange", "InvalidRange"}

\* C7: read_pdf_text checks file exists, document decodes, start_page in range, end_page
\* (if given) in range, start_page <= end_page, in this order; it returns the error of
\* the first check that fails, an out-of-range error names 1-page_count, and a call that
\* fails a check extracts no page text.
C7_ValidationOrder ==
  (pc = "done" /\ call.tool = "read_pdf_text") =>
    LET f == call.file
        s == call.start_page
        e == call.end_page
    IN /\ IF ~Exists(f) THEN result.kind = "FileNotFound"
          ELSE IF ~Decodes(f) THEN result.kind = "ReadError" /\ events = <<>>
          ELSE IF Raises(f, "page_count") THEN result.kind = "ReadError"
          ELSE IF ~InRange(s, f)
          THEN result = [kind |-> "StartOutOfRange", page |-> s, lo |-> 1,
                         hi |-> PageCount(f)]
          ELSE IF e # None /\ ~InRange(e[1], f)
          THEN result = [kind |-> "EndOutOfRange", page |-> e[1], lo |-> 1,
                         hi |-> PageCount(f)]
          ELSE IF e # None /\ s > e[1]
          THEN result.kind = "InvalidRange"
          ELSE result.kind \in {"Text", "NoText", "ReadError"}
       /\ result.kind \in ValidationErrors =>
            \A i \in 1..Len(events) : events[i] # "page_text"

\* the start-page error was returned although the end page is out of range too
C7_Witness ==
  /\ ReadReturned
  /\ result.kind = "StartOutOfRange"
  /\ call.end_page # None
  /\ ~InRange(call.end_page[1], call.file)
  /\ PageCount(call.file) >= 2

\* C8: read_pdf_page(file, n) returns what read_pdf_text(file, n, n) returns, for every
\* n, valid or not, having done the same work on the document.
C8_SamePage ==
  (pc = "done" /\ call.tool = "read_pdf_page") =>
    /\ result = ReadPdfTextRun(call.file, call.page_number, Some(call.page_number)).result
    /\ events = ReadPdfTextRun(call.file, call.page_number, Some(call.page_number)).events

\* read_pdf_page returned the text of a page that is not the last one
C8_Witness ==
  /\ pc = "done"
  /\ call.tool = "read_pdf_page"
  /\ result.kind = "Text"
  /\ call.page_number < PageCount(call.file)

\* C9, as claimed: with search_context_chars = 0 and a non-empty query, every match has a
\* non-empty context that contains the matched substring.
C9_Original ==
  (config.search_context_chars = 0 /\ call.query # <<>>) =>
    \A i \in 1..Len(results) :
      results[i].context # <<>> /\ Contains(results[i].context, Matched(results[i]))

\* C9, amended: with search_context_chars = 0 the context of every match is the matched
\* substring with its whitespace normalised (trimmed, runs collapsed to one space); it is
\* the matched substring itself, hence non-empty, when the query is non-empty and the
\* matched text has no whitespace.
C9_Context ==
  config.search_context_chars = 0 =>
    \A i \in 1..Len(results) :
      LET m == Matched(results[i])
      IN /\ results[i].context = JoinSplit(Strip(m), FALSE)
         /\ (call.query # <<>> /\ \A k \in 1..Len(m) : m[k] \notin WS)
              => (results[i].context = m /\ results[i].context # <<>>)

\* a match of a two-character query inside a longer page, with no context characters
C9_Witness ==
  /\ config.search_context_chars = 0
  /\ Len(call.query) = 2
  /\ \E i \in 1..Len(results) :
       /\ results[i].context = Matched(results[i])
       /\ results[i].position > 0
       /\ Len(PageText(call.file, results[i].page - 1)) > Len(call.query)

\* C10: when the search yields N >= 1 matches and result_index is outside [1, N],
\* search_and_open returns a result-not-found or parse error and neither calls
\* open_pdf_page nor starts a viewer.
C10_NotFound ==
  (/\ pc = "done"
   /\ call.tool = "search_and_open"
   /\ Rendered
   /\ call.result_index \notin 1..Len(results))
  => /\ result.kind \in {"ResultNotFound", "ParseError"}
     /\ opened = <<>>
     /\ launches = <<>>

\* the last page of the range of a read_pdf_text call (line 168: None reads to the end)
LastPage == IF call.end_page = None THEN PageCount(call.file) ELSE call.end_page[1]

\* the pages of the range whose trimmed text is non-empty
NonEmptyPages ==
  {p \in call.start_page..LastPage : Strip(PageText(call.file, p - 1)) # <<>>}

\* read_pdf_text returned for a valid range none of whose pages fails to extract
ValidRangeRead ==
  /\ ReadReturned
  /\ ValidateRange(call.start_page, call.end_page, PageCount(call.file)) = "ok"
  /\ \A p \in call.start_page..LastPage : ~TextRaises(call.file, p - 1)

\* C11: for a valid range read_pdf_text emits exactly one labelled block per page of the
\* range whose trimmed text is non-empty, in ascending page order, each labelled with its
\* 1-indexed page number and holding the page's text; empty pages emit nothing; when
\* every page is empty the result is the "No text found in pages start-end" message, and
\* the text returned is never the empty string.
C11_RangeExtraction ==
  ValidRangeRead =>
    /\ result.kind \in {"Text", "NoText"}
    /\ result.kind = "NoText" <=> NonEmptyPages = {}
    /\ result.kind = "NoText" => (result.start = call.start_page /\ result.end = LastPage)
    /\ result.kind = "Text" =>
         /\ Len(result.parts) = Cardinality(NonEmptyPages)
         /\ \A i \in 1..Len(result.parts) :
              /\ result.parts[i].page \in NonEmptyPages
              /\ result.parts[i].text = PageText(call.file, result.parts[i].page - 1)
              /\ \A j \in (i + 1)..Len(result.parts) :
                   result.parts[i].page < result.parts[j].page
              /\ Contains(result.text,
                          S_PageOpen \o IntStr(result.parts[i].page) \o S_PageClose \o SEP
                            \o result.parts[i].text)
         /\ StartsWith(result.text, S_PageOpen \o IntStr(result.parts[1].page) \o S_PageClose)
         /\ result.text # <<>>

\* a range with an empty page between two pages that were emitted
C11_Witness ==
  /\ ValidRangeRead
  /\ result.kind = "Text"
  /\ Len(result.parts) >= 2
  /\ \E p \in call.start_page..LastPage :
       /\ p \notin NonEmptyPages
       /\ result.parts[1].page < p
       /\ p < result.parts[Len(result.parts)].page

\* the string is an optional leading "-" followed by one or more decimal digits
SignedDigits(t) ==
  /\ t # <<>>
  /\ LET body == IF t[1] = "-" THEN Tail(t) ELSE t
     IN body # <<>> /\ \A i \in 1..Len(body) : IsDigit(body[i])

\* the integer a string of SignedDigits denotes
Denoted(t) == IF t[1] = "-" THEN 0 - DigitsVal(Tail(t)) ELSE DigitsVal(t)

\* the integers the tool of the invocation passed on, in the order of raw
Passed ==
  CASE call.tool = "read_pdf_text" -> <<call.start_page>> \o call.end_page
    [] call.tool = "search_and_open" -> <<call.result_index>>
    [] OTHER -> <<call.page_number>>

\* a tool with integer parameters has returned
ArgsReturned == pc = "done" /\ raw # <<>>

\* C13, as claimed: an integer is accepted unchanged; a string is accepted exactly when it
\* consists only of an optional leading "-" followed by one or more digits (read as
\* any decimal digit), and every other string is rejected with InvalidArgument.
C13_Original ==
  ArgsReturned =>
    (result.kind # "InvalidArgument"
       <=> \A i \in 1..Len(raw) :
             raw[i].type = "int" \/ SignedDigits(raw[i].str))

\* C13, amended: an integer is accepted unchanged; a string is accepted exactly when,
\* after the whitespace around it is trimmed, it is an optional leading "-" followed by
\* one or more decimal digits (those of other scripts included), and the tool then gets
\* the integer it denotes ("2" gives 2); every other string is rejected with
\* InvalidArgument and the tool does no work on the document.
C13_SafeInt ==
  ArgsReturned =>
    LET accepted == \A i \in 1..Len(raw) :
                      raw[i].type = "int" \/ SignedDigits(Strip(raw[i].str))
    IN /\ result.kind # "InvalidArgument" <=> accepted
       /\ accepted =>
            /\ Len(Passed) = Len(raw)
            /\ \A i \in 1..Len(raw) :
                 Passed[i] = IF raw[i].type = "int" THEN raw[i].int
                             ELSE Denoted(Strip(raw[i].str))
            /\ raw[1] = StrArg(<<"2">>) => Passed[1] = 2
       /\ ~accepted => (events = <<>> /\ opened = <<>> /\ launches = <<>>)

\* a string with whitespace around the digits was accepted and the document was read
C13_Witness ==
  /\ ArgsReturned
  /\ call.tool = "read_pdf_page"
  /\ raw = <<StrArg(<<"2", "\n">>)>>
  /\ result.kind = "Text"
  /\ call.page_number = 2

\* search_pdf_text has closed the document and returned its report (lines 127-137)
Reported ==
  /\ pc \in {"parse", "done"}
  /\ call.tool \in {"search_pdf_text", "search_and_open"}
  /\ events # <<>>
  /\ events[Len(events)] = "close"
  /\ result.kind # "InvalidArgument"

\* the pages the loop of line 89 has taken, 1-indexed
ScannedPages == 1..Min({page_num + 1, PageCount(call.file)})

\* the offsets at which the lower-cased query occurs in the lower-cased text of page p
Occurrences(p) ==
  LET text == Lower(PageText(call.file, p - 1))
  IN {o \in 0..(Len(text) - Len(call.query)) : MatchAt(text, Lower(call.query), o)}

\* the offsets recorded for page p, in the order of the report
OffsetsOn(p) ==
  LET on == SelectSeq(results, LAMBDA r : r.page = p)
  IN [i \in 1..Len(on) |-> on[i].position]

\* C14: the matches of a report are ordered page-ascending and, within a page, by
\* strictly ascending offset; for each scanned page they are exactly the first (up to 3)
\* offsets at which the lower-cased query occurs in the lower-cased page text,
\* overlapping occurrences included; no other page has a match.
C14_ScanOrder ==
  Reported =>
    /\ \A i \in 1..Len(results) : \A j \in (i + 1)..Len(results) :
         \/ results[i].page < results[j].page
         \/ results[i].page = results[j].page /\ results[i].position < results[j].position
    /\ \A i \in 1..Len(results) : results[i].page \in ScannedPages
    /\ \A p \in ScannedPages :
         LET offsets == OffsetsOn(p)
             got == {offsets[i] : i \in 1..Len(offsets)}
         IN /\ Len(offsets) = Min({3, Cardinality(Occurrences(p))})
            /\ got \subseteq Occurrences(p)
            /\ \A o \in Occurrences(p) \ got : \A g \in got : g < o

\* "aa" in "aaa": the report holds the overlapping occurrences at offsets 0 and 1
C14_Witness ==
  /\ Reported
  /\ call.query = Q_aa
  /\ PageText(call.file, 0) = T_aaa
  /\ OffsetsOn(1) = <<0, 1>>

\* search_pdf_text is running or has returned
Searching ==
  /\ pc # "idle"
  /\ call.tool \in {"search_pdf_text", "search_and_open"}

\* the number of matches recorded when page p (1-indexed) was finished
TotalAtEnd(p) == Len(SelectSeq(results, LAMBDA r : r.page <= p))

\* C15: the global cap is tested only when a page is finished: the scan has gone past a
\* page only if the total at its end was below max_search_results, it stops at the first
\* page at whose end the total is >= max_search_results, no later page contributes a
\* match, and for max_search_results >= 1 the total never exceeds max_search_results + 2.
C15_PageBoundaryCap ==
  Searching =>
    /\ \A p \in 1..page_num : TotalAtEnd(p) < config.max_search_results
    /\ \A i \in 1..Len(results) : results[i].page <= page_num + 1
    /\ (pc = "close" \/ Reported) =>
         \/ page_num >= PageCount(call.file)
         \/ TotalAtEnd(page_num + 1) >= config.max_search_results
    /\ config.max_search_results >= 1 => Len(results) <= config.max_search_results + 2

\* a report with max_search_results + 2 matches, all of the first page, of a document
\* that has a later page containing the query
C15_Witness ==
  /\ Reported
  /\ config.max_search_results >= 1
  /\ Len(results) = config.max_search_results + 2
  /\ page_num + 1 < PageCount(call.file)
  /\ \E p \in (page_num + 2)..PageCount(call.file) :
       Contains(Lower(PageText(call.file, p - 1)), Lower(call.query))

\* the positions in ev at which the document is opened (fitz.open)
Opens(ev) == {i \in 1..Len(ev) : ev[i] = "open"}

\* C16, as claimed: every tool invocation opens the document at most once.
C16_Original == Cardinality(Opens(events)) <= 1

\* C16, amended: every tool other than search_and_open opens the document at most once;
\* search_and_open opens it at most twice, the second time in open_pdf_page for the
\* addressed result and only after the handle of the search has been closed.
C16_OneCycle ==
  /\ call.tool # "search_and_open" => Cardinality(Opens(events)) <= 1
  /\ call.tool = "search_and_open" =>
       /\ Cardinality(Opens(events)) <= 2
       /\ Cardinality(Opens(events)) = 2 => Len(opened) = 1
       /\ \A i, j \in Opens(events) :
            i < j => \E k \in (i + 1)..(j - 1) : events[k] = "close"

\* search_and_open has returned after opening the document for the search and again for
\* the page of the addressed result
C16_Witness ==
  /\ pc = "done"
  /\ call.tool = "search_and_open"
  /\ result.kind = "SearchResultOpened"
  /\ Cardinality(Opens(events)) = 2

\* the capability invoked at position j of ev is invoked on a handle that is open: the
\* last open or close before it is an open
OnOpenHandle(ev, j) ==
  \E i \in 1..(j - 1) :
    /\ ev[i] = "open"
    /\ \A k \in (i + 1)..(j - 1) : ev[k] \notin {"open", "close"}

\* C18: once the document handle has been closed, no capability of it (page count, page
\* text, outline, metadata) is invoked before the operation returns.
C18_NoUseAfterClose ==
  \A j \in 1..Len(events) :
    events[j] \in {"page_count", "page_text", "outline", "metadata"} =>
      OnOpenHandle(events, j)

\* the results of open_pdf_page that are error texts
OpenErrorTexts == {"FileNotFound", "NotAPdf", "ReadError", "PageOutOfRange",
                   "UnsupportedReader", "OpenError"}

\* the checks of open_pdf_page before the launch, lines 34-48, and the reader of lines 51-66
OpenChecksPass(f, page_number) ==
  /\ Exists(f)
  /\ Lower(Suffix(Doc(f).name)) = S_DotPdf
  /\ Decodes(f)
  /\ ~Raises(f, "page_count")
  /\ page_number \in 1..PageCount(f)

\* C19: open_pdf_page starts a viewer process at most once per invocation, and only
\* after the file exists, has a .pdf extension, decodes, page_number is in
\* [1, page_count] and the configured reader is (in lower case) one of skim, zathura,
\* evince, sumatrapdf, acrobat; on any of these failures it returns an error text and
\* launches nothing.
C19_LaunchGuarded ==
  (pc = "done" /\ call.tool = "open_pdf_page" /\ result.kind # "InvalidArgument") =>
    LET guarded == /\ OpenChecksPass(call.file, call.page_number)
                   /\ ReaderLower(config.pdf_reader) \in SupportedReaders
    IN /\ Len(launches) <= 1
       /\ launches # <<>> => guarded
       /\ ~guarded => (launches = <<>> /\ result.kind \in OpenErrorTexts)

\* search_pdf_text is inside its page loop or about to close the document
InSearchLoop == pc \in {"for_page", "scan", "page_end", "close"}

\* search_pdf_text has returned
SearchReturned == pc \in {"parse", "done"}

\* one step of the loops of lines 89-125: a hit moves the search-from offset strictly
\* forward and not beyond the end of the page text plus one, the scan of a page ends by
\* a miss or by the third match of the page, and the page loop goes on with the next page
LoopStep ==
  /\ (pc = "scan" /\ pc' = "scan") =>
       /\ start' > start
       /\ start' <= Len(PageText(call.file, page_num)) + 1
       /\ Len(results') = Len(results) + 1
       /\ page_num' = page_num
  /\ (pc = "scan" /\ pc' # "scan") =>
       /\ pc' = "page_end"
       /\ \/ FindMatch(PageText(call.file, page_num), call.query, start) = -1
          \/ CountOnPage(results', page_num + 1) = 3
  /\ (pc = "page_end" /\ pc' = "for_page") => page_num' = page_num + 1
  /\ (pc = "for_page" /\ pc' = "scan") =>
       (page_num' = page_num /\ page_num < PageCount(call.file))

\* C20: for every document and every query, the empty one included, search_pdf_text
\* terminates: within a page the search-from offset strictly increases after each hit,
\* the scan of a page ends at the first miss or at the third match, and the page loop
\* visits each page at most once.
C20_SearchTerminates ==
  /\ InSearchLoop ~> SearchReturned
  /\ [][LoopStep]_vars
  /\ [](Searching =>
         Cardinality({i \in 1..Len(events) : events[i] = "page_text"})
           <= PageCount(call.file))

\* the search for the empty query has returned a report, having visited every page of
\* a document of several pages
C20_Witness ==
  /\ Reported
  /\ call.query = Q_empty
  /\ PageCount(call.file) >= 3
  /\ page_num = PageCount(call.file)
  /\ Len(results) >= 3

\* no other instance is between the open and the end of a save_config
WritesAlone(instance) ==
  \A other \in Instances \ {instance} : config_pc[other] \notin {"load_write", "set_write"}

\* a step of the constructor of an instance, from the file it finds
LoadStep(instance) ==
  /\ (config_pc[instance] = "new" /\ config_pc'[instance] # "new" /\ ~io_failed') =>
       IF config_file.kind = "object"
       THEN /\ config_pc'[instance] = "ready"
            /\ \A k \in DOMAIN DEFAULT_CONFIG \ DOMAIN config_file.object :
                 ConfigOf(instance)'[k] = DEFAULT_CONFIG[k]
            /\ \A k \in DOMAIN config_file.object :
                 ConfigOf(instance)'[k] = config_file.object[k]
       ELSE config_pc'[instance] = "load_write"
  /\ (config_pc[instance] = "load_write" /\ config_pc'[instance] # "load_write") =>
       /\ config_pc'[instance] = "ready"
       /\ ConfigOf(instance)' = DEFAULT_CONFIG
       /\ WritesAlone(instance) => config_file' = FileObject(DEFAULT_CONFIG)

\* C12: after Config is constructed, every default key absent from the file has its
\* default value and every key present in the file (known or unknown) has the file's
\* value; when the file is missing or malformed the in-memory config equals the defaults
\* and the file is rewritten with the default object (stated for constructions in which
\* the file can be opened for writing).
C12_ConfigLoad == [][\A instance \in Instances : LoadStep(instance)]_vars

\* C17: each set updates the caller's in-memory config and writes that whole object to
\* the file; when two instances sharing one file interleave set calls, the file
\* afterwards equals the complete in-memory config of whichever instance wrote last
\* (stated for the states in which no set is under way, every write of the file was
\* the write of a set, and none has failed to open the file).
C17_LastWriterWins ==
  (/\ \A instance \in Instances : config_pc[instance] = "ready"
   /\ last_writer # "none"
   /\ ~load_wrote
   /\ ~io_failed)
  => config_file = FileObject(ConfigOf(last_writer))

====
